---------------------------- MODULE Spec2Model ----------------------------
(***************************************************************************)
(* Model of the form-filling core of pdftool_core (src/rust/pdftool_core/  *)
(* src/lib.rs): the field-graph walk, the field descriptors with their     *)
(* inherited names and types, the button/text value applicator and the    *)
(* fill pipeline.                                                          *)
(*                                                                         *)
(* Text is a sequence of one-character strings; "NUL", "TAB" and "LF"      *)
(* stand for the characters U+0000, U+0009 and U+000A and "xFF" for a byte *)
(* that is not valid UTF-8.  An Option<T> is a record [some, v].  A PDF    *)
(* Object is a record [tag, id, items, b]; a dictionary of the object      *)
(* table is a record with one field per key the program reads or writes.  *)
(***************************************************************************)
EXTENDS Integers, Sequences, FiniteSets, TLC

(***************************************************************************)
(* Bounds of the model and constants of the program                        *)
(***************************************************************************)
\* number of objects in the object table of the small documents
MaxObj == 3
\* length of the longest linear Parent chain among the chain documents
MaxChain == 60
\* the recursion bound of field_full_name and field_type
MaxDepth == 48

(***************************************************************************)
(* Options and text                                                        *)
(***************************************************************************)
SomeText(t) == [some |-> TRUE, v |-> t]
NoText == [some |-> FALSE, v |-> <<>>]
SomeId(i) == [some |-> TRUE, v |-> i]
NoId == [some |-> FALSE, v |-> 0]

UpperAlpha == <<"A","B","C","D","E","F","G","H","I","J","K","L","M",
                "N","O","P","Q","R","S","T","U","V","W","X","Y","Z">>
LowerAlpha == <<"a","b","c","d","e","f","g","h","i","j","k","l","m",
                "n","o","p","q","r","s","t","u","v","w","x","y","z">>

\* char::to_ascii_lowercase
char_to_ascii_lowercase(c) ==
    IF \E i \in 1..26 : UpperAlpha[i] = c
    THEN LowerAlpha[CHOOSE i \in 1..26 : UpperAlpha[i] = c]
    ELSE c

\* str::to_ascii_lowercase
to_ascii_lowercase(s) == [i \in 1..Len(s) |-> char_to_ascii_lowercase(s[i])]

\* <[u8]>::eq_ignore_ascii_case
eq_ignore_ascii_case(a, b) == to_ascii_lowercase(a) = to_ascii_lowercase(b)

\* the characters str::trim removes
WhiteSpace == {" ", "TAB", "LF"}

RECURSIVE trim_start_matches(_, _)
trim_start_matches(s, set) ==
    IF s # <<>> /\ Head(s) \in set THEN trim_start_matches(Tail(s), set) ELSE s

RECURSIVE trim_end_matches(_, _)
trim_end_matches(s, set) ==
    IF s # <<>> /\ s[Len(s)] \in set
    THEN trim_end_matches(SubSeq(s, 1, Len(s) - 1), set)
    ELSE s

\* str::trim_matches(c) and str::trim(): both ends, nothing in between
trim_matches(s, set) == trim_end_matches(trim_start_matches(s, set), set)
trim(s) == trim_matches(s, WhiteSpace)

\* String::from_utf8_lossy: an invalid byte becomes U+FFFD
from_utf8_lossy(raw) == [i \in 1..Len(raw) |-> IF raw[i] = "xFF" THEN "uFFFD" ELSE raw[i]]

(***************************************************************************)
(* PDF objects                                                             *)
(***************************************************************************)
Absent == [tag |-> "Absent", id |-> 0, items |-> <<>>, b |-> <<>>]
Null == [tag |-> "Null", id |-> 0, items |-> <<>>, b |-> <<>>]
Name(bytes) == [tag |-> "Name", id |-> 0, items |-> <<>>, b |-> bytes]
String(bytes) == [tag |-> "String", id |-> 0, items |-> <<>>, b |-> bytes]
Boolean(x) == [tag |-> "Boolean", id |-> 0, items |-> <<>>, b |-> <<IF x THEN "t" ELSE "f">>]
Reference(i) == [tag |-> "Reference", id |-> i, items |-> <<>>, b |-> <<>>]
Array(s) == [tag |-> "Array", id |-> 0, items |-> s, b |-> <<>>]
\* an inline dictionary; items are its entries, records [k, v]
InlineDict(entries) == [tag |-> "Dictionary", id |-> 0, items |-> entries, b |-> <<>>]
\* Dictionary::get(key) on an inline dictionary
Entry(obj, key) ==
    LET hit == {i \in 1..Len(obj.items) : obj.items[i].k = key}
    IN IF hit = {} THEN Absent ELSE obj.items[CHOOSE i \in hit : TRUE].v
\* a dictionary reached through a reference (its entries live in the table)
TableDict(i) == [tag |-> "Dictionary", id |-> i, items |-> <<>>, b |-> <<>>]
\* the Err of a lookup
Dangling == [tag |-> "Err", id |-> 0, items |-> <<>>, b |-> <<>>]

Off == <<"O","f","f">>
Yes == <<"Y","e","s">>
Widget == <<"W","i","d","g","e","t">>
Tx == <<"T","x">>
Ch == <<"C","h">>
Btn == <<"B","t","n">>

\* a dictionary of the object table with the entries given, the others absent
Dict(T, Parent, Kids, FT, Subtype, N) ==
    [dict |-> TRUE, val |-> Null, T |-> T, Parent |-> Parent, Kids |-> Kids,
     FT |-> FT, Subtype |-> Subtype, N |-> N,
     AS |-> Absent, V |-> Absent, DV |-> Absent,
     AcroForm |-> Absent, Fields |-> Absent, NeedAppearances |-> Absent]
\* an object of the table that is no dictionary
NonDict(o) ==
    [dict |-> FALSE, val |-> o, T |-> Absent, Parent |-> Absent, Kids |-> Absent,
     FT |-> Absent, Subtype |-> Absent, N |-> Absent,
     AS |-> Absent, V |-> Absent, DV |-> Absent,
     AcroForm |-> Absent, Fields |-> Absent, NeedAppearances |-> Absent]

\* Document::get_object(id).as_dict() succeeds
IsDict(d, id) == id \in DOMAIN d /\ d[id].dict

\* Document::get_object(id)
get_object(d, id) ==
    IF id \notin DOMAIN d THEN Dangling
    ELSE IF d[id].dict THEN TableDict(id) ELSE d[id].val

resolve_object(d, obj) ==
    IF obj.tag = "Reference" THEN get_object(d, obj.id) ELSE obj

object_to_text(obj) ==
    IF obj.tag \notin {"String", "Name"} THEN NoText
    ELSE LET text == trim(trim_matches(from_utf8_lossy(obj.b), {"NUL"}))
         IN IF text = <<>> THEN NoText ELSE SomeText(text)

\* dict_text(doc, dict, key) with the entry of the key given
dict_text(d, entry) ==
    IF entry.tag = "Absent" THEN NoText
    ELSE LET resolved == resolve_object(d, entry)
         IN IF resolved.tag # "Err" THEN object_to_text(resolved)
            ELSE object_to_text(entry)

object_to_name(obj) ==
    IF obj.tag # "Name" THEN NoText
    ELSE LET value == trim(from_utf8_lossy(obj.b))
         IN IF value = <<>> THEN NoText ELSE SomeText(value)

object_as_reference(obj) ==
    IF obj.tag = "Reference" THEN SomeId(obj.id) ELSE NoId

\* is_widget_dict on the dictionary of the table entry e
is_widget_dict(e) == e.Subtype.tag = "Name" /\ e.Subtype.b = Widget

is_widget_object(d, id) == IsDict(d, id) /\ is_widget_dict(d[id])

(***************************************************************************)
(* Field descriptors                                                       *)
(***************************************************************************)
field_parent_id(d, field_id) ==
    IF ~IsDict(d, field_id) THEN NoId
    ELSE object_as_reference(d[field_id].Parent)

field_partial_name(d, field_id) ==
    IF ~IsDict(d, field_id) THEN NoText
    ELSE dict_text(d, d[field_id].T)

\* the two parts of the dotted name in the other order
DottedName_Swapped(parent_name, name) == name \o <<".">> \o parent_name

\* format!("{}.{}", parent_name, name)
DottedName(parent_name, name) == parent_name \o <<".">> \o name

\* field_full_name climbs the Parent entries and composes the name on the way
\* back.  Here the climb and the way back are two loops, so that no level of
\* one waits on the stack for the other: VisitedFields is the fields the
\* recursion visits, from field_id at depth up to the last one whose depth is
\* at most MaxDepth, and NameOfChain is the match on (parent, partial) applied
\* from the last field visited down to field_id.  The call the depth bound cuts
\* and the field without Parent both give the name above them as None.
RECURSIVE VisitedFields(_, _, _)
VisitedFields(d, chain, depth) ==
    CASE depth < MaxDepth /\ field_parent_id(d, chain[Len(chain)]).some ->
           VisitedFields(d, Append(chain, field_parent_id(d, chain[Len(chain)]).v),
                         depth + 1)
      [] OTHER -> chain

RECURSIVE NameOfChain(_, _, _, _)
NameOfChain(d, chain, k, parent_name) ==
    CASE k = 0 -> parent_name
      [] k > 0 /\ field_partial_name(d, chain[k]).some /\ parent_name.some ->
           NameOfChain(d, chain, k - 1,
                       SomeText(DottedName(parent_name.v, field_partial_name(d, chain[k]).v)))
      [] k > 0 /\ field_partial_name(d, chain[k]).some /\ ~parent_name.some ->
           NameOfChain(d, chain, k - 1, field_partial_name(d, chain[k]))
      [] OTHER -> NameOfChain(d, chain, k - 1, parent_name)

field_full_name(d, field_id, depth) ==
    IF depth > MaxDepth THEN NoText
    ELSE LET chain == VisitedFields(d, <<field_id>>, depth)
         IN NameOfChain(d, chain, Len(chain), NoText)

\* the FT entry of one dictionary as a name: the resolved entry, else the entry
OwnFieldType(d, field_id) ==
    LET ft_obj == d[field_id].FT
        resolved == resolve_object(d, ft_obj)
    IN IF ft_obj.tag = "Absent" THEN NoText
       ELSE IF resolved.tag # "Err" /\ object_to_name(resolved).some
            THEN object_to_name(resolved)
            ELSE object_to_name(ft_obj)

\* the type without the climb to the parent
field_type_OwnOnly(d, field_id, depth) ==
    IF depth > MaxDepth \/ ~IsDict(d, field_id) THEN NoText
    ELSE OwnFieldType(d, field_id)

RECURSIVE field_type(_, _, _)
field_type(d, field_id, depth) ==
    CASE depth > MaxDepth \/ ~IsDict(d, field_id) -> NoText
      [] depth <= MaxDepth /\ IsDict(d, field_id)
         /\ (OwnFieldType(d, field_id).some \/ ~field_parent_id(d, field_id).some) ->
           OwnFieldType(d, field_id)
      [] OTHER -> field_type(d, field_parent_id(d, field_id).v, depth + 1)

\* the Kids entry of an object met in a walk: of the table dictionary a
\* reference leads to, or of an inline dictionary
KidsOfRef(d, id) == IF IsDict(d, id) THEN d[id].Kids ELSE Absent
KidsOfInline(obj) == Entry(obj, "Kids")

RECURSIVE collect_widget_ids_for_field(_, _, _)
RECURSIVE collect_widget_ids_items(_, _, _)
\* acc is [out, seen]; the result is acc after the walk of source
collect_widget_ids_for_field(d, source, acc) ==
    CASE source.tag = "Reference" ->
           IF source.id \in acc.seen THEN acc
           ELSE LET a1 == [out |-> IF is_widget_object(d, source.id)
                                   THEN Append(acc.out, source.id) ELSE acc.out,
                           seen |-> acc.seen \cup {source.id}]
                    kids == KidsOfRef(d, source.id)
                IN IF kids.tag # "Absent"
                   THEN collect_widget_ids_for_field(d, kids, a1) ELSE a1
      [] source.tag = "Array" -> collect_widget_ids_items(d, source.items, acc)
      [] source.tag = "Dictionary" ->
           IF KidsOfInline(source).tag # "Absent"
           THEN collect_widget_ids_for_field(d, KidsOfInline(source), acc) ELSE acc
      [] OTHER -> acc
collect_widget_ids_items(d, items, acc) ==
    IF items = <<>> THEN acc
    ELSE collect_widget_ids_items(d, Tail(items),
                                  collect_widget_ids_for_field(d, Head(items), acc))

describe_field(d, field_id) ==
    LET own == is_widget_object(d, field_id)
        acc0 == [out |-> IF own THEN <<field_id>> ELSE <<>>,
                 seen |-> IF own THEN {field_id} ELSE {}]
        kids == KidsOfRef(d, field_id)
    IN [id |-> field_id,
        partial_name |-> field_partial_name(d, field_id),
        full_name |-> field_full_name(d, field_id, 0),
        field_type |-> field_type(d, field_id, 0),
        widget_ids |-> IF kids.tag # "Absent"
                       THEN collect_widget_ids_for_field(d, kids, acc0).out
                       ELSE acc0.out]

\* HashMap::get under the two names; fields is a function from text to text
field_input_value(descriptor, fields) ==
    IF descriptor.full_name.some /\ descriptor.full_name.v \in DOMAIN fields
    THEN SomeText(fields[descriptor.full_name.v])
    ELSE IF descriptor.partial_name.some /\ descriptor.partial_name.v \in DOMAIN fields
    THEN SomeText(fields[descriptor.partial_name.v])
    ELSE NoText

\* The N entry of a table dictionary stands for what AP -> N resolves to:
\* Absent when a step of the lookup is missing, else a dictionary whose items
\* are its keys in iteration order.
widget_on_state(d, widget_id) ==
    IF ~IsDict(d, widget_id) \/ d[widget_id].N.tag # "Dictionary" THEN NoText
    ELSE LET keys == d[widget_id].N.items
             on == {i \in 1..Len(keys) : keys[i] # Off}
         IN IF on = {} THEN NoText
            ELSE SomeText(keys[CHOOSE i \in on : \A j \in on : i <= j])

(***************************************************************************)
(* The value applicator                                                    *)
(***************************************************************************)
\* An error payload: its code, the value its message quotes, its context.
CoreError(code, arg, context) == [code |-> code, arg |-> arg, context |-> context]
NoError == CoreError("", <<>>, NoText)
\* A CoreResult<()> together with the document as the call leaves it.
Ok(d) == [ok |-> TRUE, doc |-> d, err |-> NoError]
Err(d, e) == [ok |-> FALSE, doc |-> d, err |-> e]

\* format!("{:?}", id) of the context of the update errors
IdContext(what, id) == SomeText(<<what, " ", ToString(id)>>)

set_widget_as(d, widget_id, value) ==
    IF ~IsDict(d, widget_id)
    THEN Err(d, CoreError("BW_FILL_WIDGET_UPDATE_FAILED", <<>>, IdContext("widget", widget_id)))
    ELSE Ok([d EXCEPT ![widget_id].AS = Name(value)])

\* the text value appended to the String the field holds
set_field_text_value_Appending(d, descriptor, value) ==
    IF ~IsDict(d, descriptor.id)
    THEN Err(d, CoreError("BW_FILL_FIELD_UPDATE_FAILED", <<>>, IdContext("field", descriptor.id)))
    ELSE LET old == IF d[descriptor.id].V.tag = "String" THEN d[descriptor.id].V.b ELSE <<>>
         IN Ok([d EXCEPT ![descriptor.id].V = String(old \o value),
                         ![descriptor.id].DV = String(old \o value)])

\* the text value trimmed before it is written
set_field_text_value_Trimmed(d, descriptor, value) ==
    IF ~IsDict(d, descriptor.id)
    THEN Err(d, CoreError("BW_FILL_FIELD_UPDATE_FAILED", <<>>,
                          IdContext("field", descriptor.id)))
    ELSE Ok([d EXCEPT ![descriptor.id].V = String(trim(value)),
                      ![descriptor.id].DV = String(trim(value))])

set_field_text_value(d, descriptor, value) ==
    IF ~IsDict(d, descriptor.id)
    THEN Err(d, CoreError("BW_FILL_FIELD_UPDATE_FAILED", <<>>, IdContext("field", descriptor.id)))
    ELSE Ok([d EXCEPT ![descriptor.id].V = String(value),
                      ![descriptor.id].DV = String(value)])

\* the truthy words without "x"
is_truthy_WithoutX(value) ==
    value \in {<<"t","r","u","e">>, <<"y","e","s">>, <<"o","n">>, <<"1">>,
               <<"c","h","e","c","k","e","d">>}

is_truthy(value) ==
    value \in {<<"t","r","u","e">>, <<"y","e","s">>, <<"o","n">>, <<"1">>,
               <<"c","h","e","c","k","e","d">>, <<"x">>}

\* the falsey words without "0"
is_falsey_WithoutZero(value) ==
    value \in {<<>>, <<"f","a","l","s","e">>, <<"n","o">>, <<"o","f","f">>,
               <<"u","n","c","h","e","c","k","e","d">>}

is_falsey(value) ==
    value \in {<<>>, <<"f","a","l","s","e">>, <<"n","o">>, <<"o","f","f">>, <<"0">>,
               <<"u","n","c","h","e","c","k","e","d">>}

\* raw_value.trim().to_ascii_lowercase()
Normalize(raw_value) == to_ascii_lowercase(trim(raw_value))

\* the (widget, on-state) pairs of the widgets that have an on-state, in order
RECURSIVE WidgetStates(_, _)
WidgetStates(d, ids) ==
    IF ids = <<>> THEN <<>>
    ELSE LET state == widget_on_state(d, Head(ids))
         IN (IF state.some THEN <<[id |-> Head(ids), state |-> state.v]>> ELSE <<>>)
            \o WidgetStates(d, Tail(ids))

\* the guard with the widget count off by one
IsRadioSelection_MoreThanTwo(descriptor, normalized) ==
    Len(descriptor.widget_ids) > 2 /\ ~is_truthy(normalized) /\ ~is_falsey(normalized)

\* the guard of the radio-selection branch
IsRadioSelection(descriptor, normalized) ==
    Len(descriptor.widget_ids) > 1 /\ ~is_truthy(normalized) /\ ~is_falsey(normalized)

\* widget_states.iter().find(|(_, state)| state.eq_ignore_ascii_case(requested))
FindSelected(widget_states, requested) ==
    LET hit == {i \in 1..Len(widget_states) :
                  eq_ignore_ascii_case(widget_states[i].state, requested)}
    IN IF hit = {} THEN [some |-> FALSE, id |-> 0, state |-> <<>>]
       ELSE LET i == CHOOSE i \in hit : \A j \in hit : i <= j
            IN [some |-> TRUE, id |-> widget_states[i].id, state |-> widget_states[i].state]

\* descriptor.full_name.clone().or(descriptor.partial_name.clone())
ErrorContext(descriptor) ==
    IF descriptor.full_name.some THEN descriptor.full_name ELSE descriptor.partial_name

\* the loops with the widgets that are not the chosen one passed over
RECURSIVE SetWidgets_OthersKept(_, _, _, _, _)
SetWidgets_OthersKept(r, ids, branch, chosen, state) ==
    IF ids = <<>> \/ ~r.ok THEN r
    ELSE LET w == Head(ids)
             on == widget_on_state(r.doc, w)
             picks == branch \in {"radio", "truthy_multi"}
             value == CASE branch = "radio" -> state
                        [] branch = "truthy_multi" -> IF on.some THEN on.v ELSE Yes
                        [] branch = "truthy_single" ->
                             IF on.some THEN on.v ELSE r.field_value
                        [] OTHER -> Off
             fv == IF branch = "truthy_multi" /\ w = chosen THEN value ELSE r.field_value
             res == IF picks /\ w # chosen THEN Ok(r.doc) ELSE set_widget_as(r.doc, w, value)
         IN SetWidgets_OthersKept([ok |-> res.ok, doc |-> res.doc, err |-> res.err,
                                   field_value |-> fv],
                                  Tail(ids), branch, chosen, state)

\* The three loops over descriptor.widget_ids; r is [ok, doc, err, field_value]
\* and a failed set_widget_as ends the loop.
RECURSIVE SetWidgets(_, _, _, _, _)
SetWidgets(r, ids, branch, chosen, state) ==
    IF ids = <<>> \/ ~r.ok THEN r
    ELSE LET w == Head(ids)
             on == widget_on_state(r.doc, w)
             value == CASE branch = "radio" -> IF w = chosen THEN state ELSE Off
                        [] branch = "truthy_multi" ->
                             IF w = chosen THEN (IF on.some THEN on.v ELSE Yes) ELSE Off
                        [] branch = "truthy_single" ->
                             IF on.some THEN on.v ELSE r.field_value
                        [] OTHER -> Off
             fv == IF branch = "truthy_multi" /\ w = chosen THEN value ELSE r.field_value
             res == set_widget_as(r.doc, w, value)
         IN SetWidgets([ok |-> res.ok, doc |-> res.doc, err |-> res.err,
                        field_value |-> fv],
                       Tail(ids), branch, chosen, state)

set_button_value(d, descriptor, raw_value) ==
    LET normalized == Normalize(raw_value)
        widget_states == WidgetStates(d, descriptor.widget_ids)
        ids == descriptor.widget_ids
        r0 == [ok |-> TRUE, doc |-> d, err |-> NoError, field_value |-> Off]
        selected == FindSelected(widget_states, normalized)
        first_on == IF ids = <<>> THEN NoText ELSE widget_on_state(d, ids[1])
        loop ==
          IF IsRadioSelection(descriptor, normalized)
          THEN IF selected.some
               THEN SetWidgets([r0 EXCEPT !.field_value = selected.state],
                               ids, "radio", selected.id, selected.state)
               ELSE [r0 EXCEPT !.ok = FALSE,
                               !.err = CoreError("BW_FILL_BUTTON_VALUE_INVALID", raw_value,
                                                 ErrorContext(descriptor))]
          ELSE IF is_truthy(normalized)
          THEN IF Len(ids) > 1
               THEN SetWidgets(r0, ids, "truthy_multi", ids[1], <<>>)
               ELSE SetWidgets([r0 EXCEPT !.field_value =
                                   IF first_on.some THEN first_on.v ELSE Yes],
                               ids, "truthy_single", 0, <<>>)
          ELSE SetWidgets(r0, ids, "falsey", 0, <<>>)
    IN IF ~loop.ok THEN Err(loop.doc, loop.err)
       ELSE IF ~IsDict(loop.doc, descriptor.id)
       THEN Err(loop.doc, CoreError("BW_FILL_FIELD_UPDATE_FAILED", <<>>,
                                    IdContext("field", descriptor.id)))
       ELSE Ok([loop.doc EXCEPT ![descriptor.id].V = Name(loop.field_value)])

\* descriptor.field_type.unwrap_or("Tx")
EffectiveFieldType(descriptor) ==
    IF descriptor.field_type.some THEN descriptor.field_type.v ELSE Tx

\* every type that is not "Btn" written as text
apply_field_value_TextByDefault(d, descriptor, value) ==
    IF EffectiveFieldType(descriptor) = Btn THEN set_button_value(d, descriptor, value)
    ELSE set_field_text_value(d, descriptor, value)

apply_field_value(d, descriptor, value) ==
    LET ft == EffectiveFieldType(descriptor)
    IN IF ft = Tx \/ ft = Ch THEN set_field_text_value(d, descriptor, value)
       ELSE IF ft = Btn THEN set_button_value(d, descriptor, value)
       ELSE Err(d, CoreError("BW_FILL_UNSUPPORTED_FIELD_TYPE", ft, ErrorContext(descriptor)))

(***************************************************************************)
(* Document lifecycle                                                      *)
(***************************************************************************)
root_catalog_id(trailer_root) ==
    IF trailer_root.tag = "Absent"
    THEN [ok |-> FALSE, id |-> 0,
          err |-> CoreError("BW_PDF_ROOT_MISSING", <<>>, SomeText(<<"trailer.Root">>))]
    ELSE IF ~object_as_reference(trailer_root).some
    THEN [ok |-> FALSE, id |-> 0,
          err |-> CoreError("BW_PDF_ROOT_INVALID", <<>>, SomeText(<<"trailer.Root">>))]
    ELSE [ok |-> TRUE, id |-> trailer_root.id, err |-> NoError]

\* the table dictionary holding the entries of an inline dictionary
FromInline(obj) ==
    [dict |-> TRUE, val |-> Null, T |-> Entry(obj, "T"), Parent |-> Entry(obj, "Parent"),
     Kids |-> Entry(obj, "Kids"), FT |-> Entry(obj, "FT"),
     Subtype |-> Entry(obj, "Subtype"), N |-> Entry(obj, "N"),
     AS |-> Entry(obj, "AS"), V |-> Entry(obj, "V"), DV |-> Entry(obj, "DV"),
     AcroForm |-> Entry(obj, "AcroForm"), Fields |-> Entry(obj, "Fields"),
     NeedAppearances |-> Entry(obj, "NeedAppearances")]

\* Document::add_object: the new object gets the next id
add_object(d, entry) == [doc |-> Append(d, entry), id |-> Len(d) + 1]

\* the inline form copied into a new object, the catalog entry left as it was
ensure_acroform_object_CatalogKept(d, catalog_id) ==
    LET fail(code, ctx) == [ok |-> FALSE, doc |-> d, id |-> 0,
                            err |-> CoreError(code, <<>>, SomeText(<<ctx>>))]
    IN IF ~IsDict(d, catalog_id) THEN fail("BW_FORM_CATALOG_INVALID", "catalog dictionary")
       ELSE LET acro_form == d[catalog_id].AcroForm
            IN CASE acro_form.tag = "Absent" ->
                      fail("BW_FORM_MISSING_ACROFORM", "catalog.AcroForm")
                 [] acro_form.tag = "Reference" ->
                      [ok |-> TRUE, doc |-> d, id |-> acro_form.id, err |-> NoError]
                 [] acro_form.tag = "Dictionary" ->
                      LET added == add_object(d, FromInline(acro_form))
                      IN [ok |-> TRUE, doc |-> added.doc, id |-> added.id, err |-> NoError]
                 [] OTHER -> fail("BW_FORM_ACROFORM_INVALID", "catalog.AcroForm")

\* the result is [ok, doc, id, err]
ensure_acroform_object(d, catalog_id) ==
    LET fail(code, ctx) == [ok |-> FALSE, doc |-> d, id |-> 0,
                            err |-> CoreError(code, <<>>, SomeText(<<ctx>>))]
    IN IF ~IsDict(d, catalog_id) THEN fail("BW_FORM_CATALOG_INVALID", "catalog dictionary")
       ELSE LET acro_form == d[catalog_id].AcroForm
            IN CASE acro_form.tag = "Absent" ->
                      fail("BW_FORM_MISSING_ACROFORM", "catalog.AcroForm")
                 [] acro_form.tag = "Reference" ->
                      [ok |-> TRUE, doc |-> d, id |-> acro_form.id, err |-> NoError]
                 [] acro_form.tag = "Dictionary" ->
                      LET added == add_object(d, FromInline(acro_form))
                      IN [ok |-> TRUE,
                          doc |-> [added.doc EXCEPT ![catalog_id].AcroForm =
                                                      Reference(added.id)],
                          id |-> added.id, err |-> NoError]
                 [] OTHER -> fail("BW_FORM_ACROFORM_INVALID", "catalog.AcroForm")

\* the walk with the id pushed before the test of the seen ids
collect_field_ids_PushFirst(d, st) ==
    LET source == Head(st.stack)
        rest == Tail(st.stack)
        push(kids) == IF kids.tag = "Absent" THEN rest ELSE <<kids>> \o rest
    IN CASE source.tag = "Reference" ->
              IF source.id \in st.seen
              THEN [st EXCEPT !.stack = rest, !.out = Append(st.out, source.id)]
              ELSE [stack |-> push(KidsOfRef(d, source.id)),
                    out |-> Append(st.out, source.id),
                    seen |-> st.seen \cup {source.id}]
         [] source.tag = "Array" -> [st EXCEPT !.stack = source.items \o rest]
         [] source.tag = "Dictionary" -> [st EXCEPT !.stack = push(KidsOfInline(source))]
         [] OTHER -> [st EXCEPT !.stack = rest]

\* One call of collect_field_ids, on the object on top of the stack of the calls
\* still to make; st is [stack, out, seen].  The calls a call makes replace it
\* on the stack, in their order.
collect_field_ids(d, st) ==
    LET source == Head(st.stack)
        rest == Tail(st.stack)
        push(kids) == IF kids.tag = "Absent" THEN rest ELSE <<kids>> \o rest
    IN CASE source.tag = "Reference" ->
              IF source.id \in st.seen THEN [st EXCEPT !.stack = rest]
              ELSE [stack |-> push(KidsOfRef(d, source.id)),
                    out |-> Append(st.out, source.id),
                    seen |-> st.seen \cup {source.id}]
         [] source.tag = "Array" -> [st EXCEPT !.stack = source.items \o rest]
         [] source.tag = "Dictionary" -> [st EXCEPT !.stack = push(KidsOfInline(source))]
         [] OTHER -> [st EXCEPT !.stack = rest]

\* the guard without the test of the map
NoMatchGuard_AnyMap(updated, map) == updated = 0

\* updated_fields == 0 && !field_values.is_empty()
NoMatchGuard(updated, field_values) == updated = 0 /\ DOMAIN field_values # {}

(***************************************************************************)
(* The documents and the input maps of the model                           *)
(***************************************************************************)
Ids == 1..MaxObj
Letter(i) == <<LowerAlpha[i]>>
Succ(i) == (i % MaxObj) + 1
RefOrAbsent(i) == IF i = 0 THEN Absent ELSE Reference(i)
WidgetName == Name(Widget)
NormalDict(keys) == [tag |-> "Dictionary", id |-> 0, items |-> keys, b |-> <<>>]
Sig == <<"S","i","g">>

\* The field objects objs followed by the catalog, the AcroForm object and a
\* Name object; roots is the Fields entry and kind the shape of the form.
WithForm(objs, roots, kind) ==
    LET n == Len(objs)
        plain == Dict(Absent, Absent, Absent, Absent, Absent, Absent)
        form == IF kind \in {"nofields", "inline_nofields"} THEN plain
                ELSE [plain EXCEPT !.Fields = roots]
        inline == InlineDict(IF kind = "inline"
                             THEN <<[k |-> "Fields", v |-> roots]>> ELSE <<>>)
        entry == CASE kind \in {"ref", "nofields", "ref_nondict"} -> Reference(n + 2)
                   [] kind \in {"inline", "inline_nofields"} -> inline
                   [] kind = "invalid" -> Null
                   [] OTHER -> Absent
        catalog == IF kind = "catalog_invalid" THEN NonDict(Null)
                   ELSE [plain EXCEPT !.AcroForm = entry]
        second == IF kind \in {"ref", "nofields"} THEN form ELSE NonDict(Null)
    IN objs \o <<catalog, second, NonDict(Name(<<" ","C","h">>))>>

AllFields == Array([i \in Ids |-> Reference(i)])

\* fields whose T and Parent vary
NameDoc(t, p) ==
    WithForm([i \in Ids |->
                 Dict(IF t[i] THEN String(Letter(i)) ELSE Absent, RefOrAbsent(p[i]),
                      Absent, Absent, Absent, Absent)],
             AllFields, "ref")

\* fields whose FT and Parent vary
FTChoices == {"none", "Btn", "blank", "Sig", "ref"}
FTObject(c) ==
    CASE c = "Btn" -> Name(Btn)
      [] c = "blank" -> Name(<<" ">>)
      [] c = "Sig" -> Name(Sig)
      [] c = "ref" -> Reference(MaxObj + 3)
      [] OTHER -> Absent
TypeDoc(ft, up) ==
    WithForm([i \in Ids |->
                 Dict(String(Letter(i)), IF up[i] THEN Reference(Succ(i)) ELSE Absent,
                      Absent, FTObject(ft[i]), Absent, Absent)],
             AllFields, "ref")

\* fields whose Kids vary, with cycles and repeats
KidsChoices == {"none", "next", "self", "first", "twice", "two", "ref"}
KidsObject(c, i) ==
    CASE c = "next" -> Array(<<Reference(Succ(i))>>)
      [] c = "self" -> Array(<<Reference(i)>>)
      [] c = "first" -> Array(<<Reference(1)>>)
      [] c = "twice" -> Array(<<Reference(Succ(i)), Reference(Succ(i))>>)
      [] c = "two" -> Array(<<Reference(Succ(i)), Reference(Succ(Succ(i)))>>)
      [] c = "ref" -> Reference(Succ(i))
      [] OTHER -> Absent
RootChoices == {"array", "ref", "inline"}
RootObject(c) ==
    CASE c = "ref" -> Reference(1)
      [] c = "inline" -> InlineDict(<<[k |-> "Kids",
                                       v |-> Array(<<Reference(2), Null, Reference(1)>>)]>>)
      [] OTHER -> Array(<<Reference(1)>>)
WalkDoc(k, root) ==
    WithForm([i \in Ids |->
                 Dict(String(Letter(i)), Absent, KidsObject(k[i], i), Name(Btn),
                      IF k[i] = "none" THEN WidgetName ELSE Absent,
                      IF k[i] = "none" THEN NormalDict(<<Off, Yes>>) ELSE Absent)],
             RootObject(root), "ref")

\* a button field, object 1, with nk widget kids, and text fields after them;
\* a kid with on-state "B" starts selected, the other widgets start "Off"
OnChoices == {"none", "A", "B", "Yes"}
NormalObject(c) ==
    CASE c = "A" -> NormalDict(<<Off, <<"A">>>>)
      [] c = "B" -> NormalDict(<<<<"B">>, Off>>)
      [] c = "Yes" -> NormalDict(<<Off, Yes>>)
      [] OTHER -> Absent
FormDoc(nk, own, on, kind) ==
    WithForm([i \in Ids |->
                 IF i = 1
                 THEN [Dict(String(Letter(1)), Absent,
                            IF nk = 0 THEN Absent
                            ELSE Array([j \in 1..nk |-> Reference(j + 1)]),
                            Name(Btn), IF own THEN WidgetName ELSE Absent,
                            IF own THEN NormalObject(on[1]) ELSE Absent)
                       EXCEPT !.AS = IF own THEN Name(Off) ELSE Absent]
                 ELSE IF i <= nk + 1
                 THEN [Dict(Absent, Reference(1), Absent, Absent, WidgetName,
                            NormalObject(on[i]))
                       EXCEPT !.AS = IF on[i] = "B" THEN Name(<<"B">>) ELSE Name(Off)]
                 ELSE [Dict(String(Letter(i)), Absent, Absent, Name(Tx), WidgetName, Absent)
                       EXCEPT !.V = String(<<>>)]],
             Array([i \in 1..(MaxObj - nk) |-> Reference(IF i = 1 THEN 1 ELSE i + nk)]),
             kind)

\* a linear Parent chain of len fields, field 1 at the bottom
ChainLengths == {MaxDepth, MaxDepth + 1, MaxDepth + 2, MaxDepth + 3, MaxChain}
NamePatterns == {"all", "none", "top", "bottom"}
ChainDoc(len, pat) ==
    WithForm([i \in 1..len |->
                 Dict(IF pat = "all" \/ (pat = "top" /\ i = len) \/ (pat = "bottom" /\ i = 1)
                      THEN String(<<IF i = len THEN "t" ELSE "a">>) ELSE Absent,
                      IF i < len THEN Reference(i + 1) ELSE Absent,
                      Absent, IF i = len THEN Name(Btn) ELSE Absent, Absent, Absent)],
             Array(<<Reference(1)>>), "ref")

FormKinds == {"ref", "inline", "missing", "invalid", "ref_nondict", "nofields",
              "inline_nofields", "catalog_invalid"}

EmptyMap == [k \in {} |-> <<>>]
Map1(k1, v1) == [k \in {k1} |-> v1]
Map2(k1, v1, k2, v2) == [k \in {k1, k2} |-> IF k = k1 THEN v1 ELSE v2]
Map3(k1, v1, k2, v2, k3, v3) ==
    [k \in {k1, k2, k3} |-> IF k = k1 THEN v1 ELSE IF k = k2 THEN v2 ELSE v3]

\* the values given to the button field
ButtonValues ==
    {<<"A">>, <<"a">>, <<" ","b","LF">>, <<"t","r","u","e">>, <<"Y","e","s">>,
     <<" ","O","N"," ">>, <<"1">>, <<"c","h","e","c","k","e","d">>, <<"X">>,
     <<>>, <<" ">>, <<"F","a","l","s","e">>, <<"n","o">>, <<"O","f","f">>, <<"0">>,
     <<"u","n","c","h","e","c","k","e","d">>, <<"z">>}

(***************************************************************************)
(* The state of one or two successive calls of fill_blocks_impl            *)
(***************************************************************************)
VARIABLES
    pdf_data,        \* the input bytes: "empty", "invalid" or "pdf"
    trailer_root,    \* the Root entry of the trailer of the loaded document
    doc,             \* the object table of the loaded document
    field_values,    \* the input map, a function from text to text
    calls,           \* how many times the caller runs fill, each on the last output
    call,            \* the number of the running call
    pc,              \* "start", "collect", "apply", "done" or "failed"
    stack,           \* the calls of collect_field_ids still to make
    field_ids,       \* the ids collected so far
    seen,            \* the ids visited so far
    descriptors,     \* the descriptors, once built
    idx,             \* the position of the application loop in descriptors
    updated_fields,  \* the counter of the application loop
    err,             \* the error payload of a failed call
    first_output,    \* the object table the first call wrote
    pages,           \* detect: Document::get_pages, the page ids by page number
    page_number,     \* detect: the page the outer loop is at
    annot_index,     \* detect: the 0-based position of the inner loop in Annots
    blocks,          \* detect: the Blocks pushed so far
    text_obj,        \* object_to_text: the object given
    text_out         \* object_to_text: the Option returned

\* the variables of detect_blocks_impl alone
detect_vars == <<pages, page_number, annot_index, blocks>>

\* the variables of a call of object_to_text alone
text_vars == <<text_obj, text_out>>

vars == <<pdf_data, trailer_root, doc, field_values, calls, call, pc, stack, field_ids,
          seen, descriptors, idx, updated_fields, err, first_output, pages, page_number,
          annot_index, blocks, text_obj, text_out>>

Start(bytes, root, d, map, n) ==
    /\ pdf_data = bytes
    /\ trailer_root = root
    /\ doc = d
    /\ field_values = map
    /\ calls = n
    /\ call = 1
    /\ pc = "start"
    /\ stack = <<>>
    /\ field_ids = <<>>
    /\ seen = {}
    /\ descriptors = <<>>
    /\ idx = 1
    /\ updated_fields = 0
    /\ err = NoError
    /\ first_output = <<>>
    /\ pages = <<>>
    /\ page_number = 1
    /\ annot_index = 0
    /\ blocks = <<>>
    /\ text_obj = Null
    /\ text_out = NoText

CatalogRef == Reference(MaxObj + 1)

InitNames ==
    \E t \in [Ids -> BOOLEAN], p \in [Ids -> 0..MaxObj] :
        Start("pdf", CatalogRef, NameDoc(t, p),
              Map2(<<"a">>, <<"v">>, <<"a", ".", "b">>, <<" ", "w">>), 1)

InitTypes ==
    \E ft \in [Ids -> FTChoices], up \in [Ids -> BOOLEAN] :
        Start("pdf", CatalogRef, TypeDoc(ft, up),
              [k \in {Letter(i) : i \in Ids} |-> <<"o","n">>], 1)

InitWalk ==
    \E k \in [Ids -> KidsChoices], root \in RootChoices :
        Start("pdf", CatalogRef, WalkDoc(k, root), Map1(<<"a">>, Yes), 1)

InitForm ==
    \E nk \in 0..(MaxObj - 1), own \in BOOLEAN, on \in [Ids -> OnChoices],
       map \in {EmptyMap, Map1(<<"u">>, <<"v">>)}
               \cup {Map2(<<"a">>, v, Letter(MaxObj), <<"H","i">>) : v \in ButtonValues} :
        /\ \A i \in Ids : (i > nk + 1 \/ (i = 1 /\ ~own)) => on[i] = "none"
        /\ Start("pdf", CatalogRef, FormDoc(nk, own, on, "ref"), map, 2)

InitChain ==
    \E len \in ChainLengths, pat \in NamePatterns :
        Start("pdf", Reference(len + 1), ChainDoc(len, pat),
              Map2(<<"t">>, <<"o","n">>, <<"a">>, <<"o","n">>), 1)

InitLifecycle ==
    \E kind \in FormKinds, bytes \in {"empty", "invalid", "pdf"},
       root \in {Absent, Null, CatalogRef},
       map \in {EmptyMap, Map1(<<"a">>, <<"B">>)} :
        /\ bytes # "pdf" => (kind = "ref" /\ root = CatalogRef)
        /\ root # CatalogRef => kind = "ref"
        /\ Start(bytes, root,
                 FormDoc(MaxObj - 1, FALSE,
                         [i \in Ids |-> IF i = 1 THEN "none" ELSE IF i = 2 THEN "A" ELSE "B"],
                         kind),
                 map, 2)

Init ==
    \/ InitNames
    \/ InitTypes
    \/ InitWalk
    \/ InitForm
    \/ InitChain
    \/ InitLifecycle

Fail(d, e) ==
    /\ pc' = "failed"
    /\ err' = e
    /\ doc' = d

\* fill_blocks_impl up to the call of collect_field_ids
Prepare ==
    /\ pc = "start"
    /\ LET root == root_catalog_id(trailer_root)
           form == ensure_acroform_object(doc, root.id)
           flagged == [form.doc EXCEPT ![form.id].NeedAppearances = Boolean(TRUE)]
       IN IF pdf_data = "empty"
          THEN Fail(doc, CoreError("BW_PDF_EMPTY", <<>>, NoText)) /\ stack' = stack
          ELSE IF pdf_data = "invalid"
          THEN Fail(doc, CoreError("BW_PDF_INVALID", <<>>, SomeText(<<"Document::load_mem">>)))
               /\ stack' = stack
          ELSE IF ~root.ok THEN Fail(doc, root.err) /\ stack' = stack
          ELSE IF ~form.ok THEN Fail(form.doc, form.err) /\ stack' = stack
          ELSE IF ~IsDict(form.doc, form.id)
          THEN Fail(form.doc, CoreError("BW_FORM_ACROFORM_INVALID", <<>>,
                                        SomeText(<<"AcroForm dictionary">>)))
               /\ stack' = stack
          ELSE IF flagged[form.id].Fields.tag = "Absent"
          THEN Fail(flagged, CoreError("BW_FORM_FIELDS_MISSING", <<>>,
                                       SomeText(<<"AcroForm.Fields">>)))
               /\ stack' = stack
          ELSE /\ doc' = flagged
               /\ stack' = <<flagged[form.id].Fields>>
               /\ pc' = "collect"
               /\ err' = err
    /\ field_ids' = <<>>
    /\ seen' = {}
    /\ UNCHANGED <<pdf_data, trailer_root, field_values, calls, call, descriptors, idx,
                   updated_fields, first_output>>
    /\ UNCHANGED detect_vars
    /\ UNCHANGED text_vars

\* one call of the walk
Collect ==
    /\ pc = "collect"
    /\ stack # <<>>
    /\ LET st == collect_field_ids(doc, [stack |-> stack, out |-> field_ids, seen |-> seen])
       IN /\ stack' = st.stack
          /\ field_ids' = st.out
          /\ seen' = st.seen
    /\ UNCHANGED <<pdf_data, trailer_root, doc, field_values, calls, call, pc, descriptors,
                   idx, updated_fields, err, first_output>>
    /\ UNCHANGED detect_vars
    /\ UNCHANGED text_vars

\* the walk is over: the check for no ids, then the descriptors
Describe ==
    /\ pc = "collect"
    /\ stack = <<>>
    /\ IF field_ids = <<>>
       THEN /\ Fail(doc, CoreError("BW_FORM_FIELDS_EMPTY", <<>>, NoText))
            /\ descriptors' = descriptors
       ELSE /\ descriptors' = [i \in 1..Len(field_ids) |-> describe_field(doc, field_ids[i])]
            /\ pc' = "apply"
            /\ UNCHANGED <<doc, err>>
    /\ idx' = 1
    /\ updated_fields' = 0
    /\ UNCHANGED <<pdf_data, trailer_root, field_values, calls, call, stack, field_ids,
                   seen, first_output>>
    /\ UNCHANGED detect_vars
    /\ UNCHANGED text_vars

\* one turn of the application loop
Apply ==
    /\ pc = "apply"
    /\ idx <= Len(descriptors)
    /\ LET value == field_input_value(descriptors[idx], field_values)
           res == apply_field_value(doc, descriptors[idx], value.v)
       IN IF ~value.some
          THEN /\ idx' = idx + 1
               /\ UNCHANGED <<doc, pc, err, updated_fields>>
          ELSE IF ~res.ok
          THEN /\ Fail(res.doc, res.err)
               /\ UNCHANGED <<idx, updated_fields>>
          ELSE /\ doc' = res.doc
               /\ idx' = idx + 1
               /\ updated_fields' = updated_fields + 1
               /\ UNCHANGED <<pc, err>>
    /\ UNCHANGED <<pdf_data, trailer_root, field_values, calls, call, stack, field_ids,
                   seen, descriptors, first_output>>
    /\ UNCHANGED detect_vars
    /\ UNCHANGED text_vars

\* the no-match guard and the save
Finish ==
    /\ pc = "apply"
    /\ idx > Len(descriptors)
    /\ IF NoMatchGuard(updated_fields, field_values)
       THEN Fail(doc, CoreError("BW_FILL_NO_MATCHING_FIELDS", <<>>, NoText))
       ELSE /\ pc' = "done"
            /\ UNCHANGED <<doc, err>>
    /\ UNCHANGED <<pdf_data, trailer_root, field_values, calls, call, stack, field_ids,
                   seen, descriptors, idx, updated_fields, first_output>>
    /\ UNCHANGED detect_vars
    /\ UNCHANGED text_vars

\* the caller runs fill again, with the same map, on the bytes it got
Again ==
    /\ pc = "done"
    /\ call < calls
    /\ call' = call + 1
    /\ first_output' = doc
    /\ pc' = "start"
    /\ stack' = <<>>
    /\ field_ids' = <<>>
    /\ seen' = {}
    /\ descriptors' = <<>>
    /\ idx' = 1
    /\ updated_fields' = 0
    /\ UNCHANGED <<pdf_data, trailer_root, doc, field_values, calls, err>>
    /\ UNCHANGED detect_vars
    /\ UNCHANGED text_vars

Next ==
    \/ Prepare
    \/ Collect
    \/ Describe
    \/ Apply
    \/ Finish
    \/ Again

Spec == Init /\ [][Next]_vars

\* every call runs to its end: the program is sequential and never waits
FairSpec == Spec /\ WF_vars(Next)

(***************************************************************************)
(* The block detector: detect_blocks_impl                                  *)
(***************************************************************************)
\* number of items of the Annots array of the first page
MaxAnnots == 3

\* numbers; the value is kept in the id field, in whole units
Integer(v) == [tag |-> "Integer", id |-> v, items |-> <<>>, b |-> <<>>]
Real(v) == [tag |-> "Real", id |-> v, items |-> <<>>, b |-> <<>>]

object_to_number(obj) ==
    IF obj.tag \in {"Integer", "Real"} THEN [some |-> TRUE, v |-> obj.id]
    ELSE [some |-> FALSE, v |-> 0]

Min(a, b) == IF a <= b THEN a ELSE b
Abs(a) == IF a < 0 THEN 0 - a ELSE a

NoRect == [some |-> FALSE, x |-> 0, y |-> 0, width |-> 0, height |-> 0]
rect_from_object(obj) ==
    IF obj.tag # "Array" THEN NoRect
    ELSE IF Len(obj.items) # 4 THEN NoRect
    ELSE IF \E k \in 1..4 : ~object_to_number(obj.items[k]).some THEN NoRect
    ELSE LET llx == object_to_number(obj.items[1]).v
             lly == object_to_number(obj.items[2]).v
             urx == object_to_number(obj.items[3]).v
             ury == object_to_number(obj.items[4]).v
         IN [some |-> TRUE, x |-> Min(llx, urx), y |-> Min(lly, ury),
             width |-> Abs(urx - llx), height |-> Abs(ury - lly)]

\* a table dictionary of a document given to the detector: the entries of Dict
\* and the Rect and Annots entries
DetectEntry(T, Parent, Subtype, Rect, Annots) ==
    [Rect |-> Rect, Annots |-> Annots] @@ Dict(T, Parent, Absent, Absent, Subtype, Absent)
DetectNonDict(o) == [Rect |-> Absent, Annots |-> Absent] @@ NonDict(o)

\* the entries of a Dictionary object: of the table when a reference led to
\* it, its own when it is inline
EntriesOf(d, obj) ==
    IF obj.id # 0 THEN d[obj.id]
    ELSE [Rect |-> Entry(obj, "Rect"), Annots |-> Entry(obj, "Annots")] @@ FromInline(obj)

\* the label with the T of the parent read before the T of the widget
widget_label_ParentFirst(d, widget, fallback) ==
    LET parent == resolve_object(d, widget.Parent)
    IN IF widget.Parent.tag # "Absent" /\ parent.tag = "Dictionary"
          /\ dict_text(d, EntriesOf(d, parent).T).some
       THEN dict_text(d, EntriesOf(d, parent).T).v
       ELSE IF dict_text(d, widget.T).some THEN dict_text(d, widget.T).v
       ELSE fallback

\* widget is the record of the entries of the widget dictionary
widget_label(d, widget, fallback) ==
    LET parent == resolve_object(d, widget.Parent)
    IN IF dict_text(d, widget.T).some THEN dict_text(d, widget.T).v
       ELSE IF widget.Parent.tag # "Absent" /\ parent.tag = "Dictionary"
               /\ dict_text(d, EntriesOf(d, parent).T).some
       THEN dict_text(d, EntriesOf(d, parent).T).v
       ELSE fallback

\* format!("field_{}_{}", page_number, annot_index + 1); a number is one item
FallbackLabel(page, index) ==
    <<"f","i","e","l","d","_", ToString(page), "_", ToString(index + 1)>>

\* format!("page {}", page_number)
PageContext(page) == SomeText(<<"p","a","g","e"," ", ToString(page)>>)

\* the Annots array of a page dictionary: [some, items]
PageAnnots(d, page_id) ==
    LET annots == resolve_object(d, d[page_id].Annots)
    IN IF d[page_id].Annots.tag = "Absent" \/ annots.tag # "Array"
       THEN [some |-> FALSE, items |-> <<>>]
       ELSE [some |-> TRUE, items |-> annots.items]

\* the body of the inner loop: the blocks after the annotation annot_ref
DetectAnnotation(d, bs, page, index, annot_ref) ==
    LET annot_obj == resolve_object(d, annot_ref)
        widget == EntriesOf(d, annot_obj)
        rect == rect_from_object(widget.Rect)
    IN IF annot_obj.tag # "Dictionary" THEN bs
       ELSE IF ~is_widget_dict(widget) THEN bs
       ELSE IF ~rect.some THEN bs
       ELSE Append(bs, [label |-> widget_label(d, widget, FallbackLabel(page, index)),
                        x |-> rect.x, y |-> rect.y,
                        width |-> rect.width, height |-> rect.height])

\* The documents of the detector.  Objects 1 to 8 are a parent field, six
\* annotations and a String; 9 and 10 are the pages, 11 holds an array.
ValidRect == Array(<<Integer(50), Integer(700), Real(250), Integer(724)>>)
TurnedRect == Array(<<Integer(70), Integer(670), Integer(50), Integer(650)>>)
ShortRect == Array(<<Integer(50), Integer(700), Integer(250)>>)
Link == <<"L","i","n","k">>

AnnotChoices == {"own", "parent", "bare", "badrect", "link", "tref", "blank",
                 "dangling", "null", "inline"}
AnnotObject(c) ==
    CASE c = "own" -> Reference(2)
      [] c = "parent" -> Reference(3)
      [] c = "bare" -> Reference(4)
      [] c = "badrect" -> Reference(5)
      [] c = "link" -> Reference(6)
      [] c = "tref" -> Reference(7)
      [] c = "blank" -> Reference(12)
      [] c = "dangling" -> Reference(0)
      [] c = "inline" ->
           InlineDict(<<[k |-> "Subtype", v |-> WidgetName], [k |-> "Rect", v |-> ValidRect],
                        [k |-> "Parent", v |-> Reference(1)]>>)
      [] OTHER -> Null

AnnotsForms == {"array", "ref", "absent", "notarray", "page_nondict", "page_dangling"}

\* pt: the parent has a T; kinds: the items of the Annots of the first page
DetectDoc(pt, kinds, form) ==
    LET items == [k \in 1..Len(kinds) |-> AnnotObject(kinds[k])]
        first == CASE form = "array" -> Array(items)
                   [] form = "ref" -> Reference(11)
                   [] form = "notarray" -> Reference(8)
                   [] OTHER -> Absent
    IN << DetectEntry(IF pt THEN String(<<"P">>) ELSE Absent, Absent, Absent, Absent, Absent),
          DetectEntry(String(<<"a","NUL">>), Reference(1), WidgetName, TurnedRect, Absent),
          DetectEntry(Absent, Reference(1), WidgetName, ValidRect, Absent),
          DetectEntry(Absent, Absent, WidgetName, ValidRect, Absent),
          DetectEntry(String(<<"d">>), Absent, WidgetName, ShortRect, Absent),
          DetectEntry(String(<<"l">>), Absent, Name(Link), ValidRect, Absent),
          DetectEntry(Reference(8), Reference(1), WidgetName, ValidRect, Absent),
          DetectNonDict(String(<<"s">>)),
          IF form = "page_nondict" THEN DetectNonDict(Null)
          ELSE DetectEntry(Absent, Absent, Absent, Absent, first),
          DetectEntry(Absent, Absent, Absent, Absent, Array(<<Null, Reference(3)>>)),
          DetectNonDict(Array(items)),
          DetectEntry(String(<<" ">>), Reference(8), WidgetName, ValidRect, Absent) >>

DetectStartState(bytes, d, pgs) ==
    /\ pdf_data = bytes
    /\ trailer_root = Absent
    /\ doc = d
    /\ field_values = EmptyMap
    /\ calls = 1
    /\ call = 1
    /\ pc = "detect"
    /\ stack = <<>>
    /\ field_ids = <<>>
    /\ seen = {}
    /\ descriptors = <<>>
    /\ idx = 1
    /\ updated_fields = 0
    /\ err = NoError
    /\ first_output = <<>>
    /\ pages = pgs
    /\ page_number = 1
    /\ annot_index = 0
    /\ blocks = <<>>
    /\ text_obj = Null
    /\ text_out = NoText

InitAnnots ==
    \E pt \in BOOLEAN, kinds \in [1..MaxAnnots -> AnnotChoices] :
        DetectStartState("pdf", DetectDoc(pt, kinds, "array"), <<9, 10>>)

InitPages ==
    \E form \in AnnotsForms, bytes \in {"empty", "invalid", "pdf"} :
        /\ bytes # "pdf" => form = "array"
        /\ DetectStartState(bytes, DetectDoc(TRUE, <<"parent", "own">>, form),
                            IF form = "page_dangling" THEN <<9, 0>> ELSE <<9, 10>>)

DetectInit ==
    \/ InitAnnots
    \/ InitPages

\* the variables of fill_blocks_impl alone
fill_vars == <<trailer_root, field_values, calls, call, stack, field_ids, seen,
               descriptors, idx, updated_fields, first_output>>

\* the checks of the payload and the load
DetectLoad ==
    /\ pc = "detect"
    /\ IF pdf_data = "empty" THEN Fail(doc, CoreError("BW_PDF_EMPTY", <<>>, NoText))
       ELSE IF pdf_data = "invalid"
       THEN Fail(doc, CoreError("BW_PDF_INVALID", <<>>, SomeText(<<"Document::load_mem">>)))
       ELSE pc' = "pages" /\ UNCHANGED <<doc, err>>
    /\ UNCHANGED <<pdf_data, pages, page_number, annot_index, blocks>>
    /\ UNCHANGED fill_vars
    /\ UNCHANGED text_vars

\* the outer loop opens a page
DetectPage ==
    /\ pc = "pages"
    /\ page_number <= Len(pages)
    /\ LET page_id == pages[page_number]
       IN IF page_id \notin DOMAIN doc
          THEN /\ Fail(doc, CoreError("BW_PDF_PAGE_READ_FAILED", <<>>,
                                      PageContext(page_number)))
               /\ UNCHANGED page_number
          ELSE IF ~doc[page_id].dict
          THEN /\ Fail(doc, CoreError("BW_PDF_PAGE_INVALID", <<>>, PageContext(page_number)))
               /\ UNCHANGED page_number
          ELSE IF ~PageAnnots(doc, page_id).some
          THEN /\ page_number' = page_number + 1
               /\ UNCHANGED <<pc, doc, err>>
          ELSE /\ pc' = "annots"
               /\ UNCHANGED <<page_number, doc, err>>
    /\ annot_index' = 0
    /\ UNCHANGED <<pdf_data, pages, blocks>>
    /\ UNCHANGED fill_vars
    /\ UNCHANGED text_vars

\* one turn of the inner loop
DetectAnnot ==
    /\ pc = "annots"
    /\ annot_index < Len(PageAnnots(doc, pages[page_number]).items)
    /\ blocks' = DetectAnnotation(doc, blocks, page_number, annot_index,
                                  PageAnnots(doc, pages[page_number]).items[annot_index + 1])
    /\ annot_index' = annot_index + 1
    /\ UNCHANGED <<pdf_data, doc, pc, err, pages, page_number>>
    /\ UNCHANGED fill_vars
    /\ UNCHANGED text_vars

\* the inner loop is over
DetectNextPage ==
    /\ pc = "annots"
    /\ annot_index >= Len(PageAnnots(doc, pages[page_number]).items)
    /\ page_number' = page_number + 1
    /\ pc' = "pages"
    /\ UNCHANGED <<pdf_data, doc, err, pages, annot_index, blocks>>
    /\ UNCHANGED fill_vars
    /\ UNCHANGED text_vars

\* the outer loop is over: Ok(blocks)
DetectReturn ==
    /\ pc = "pages"
    /\ page_number > Len(pages)
    /\ pc' = "detected"
    /\ UNCHANGED <<pdf_data, doc, err, pages, page_number, annot_index, blocks>>
    /\ UNCHANGED fill_vars
    /\ UNCHANGED text_vars

DetectNext ==
    \/ DetectLoad
    \/ DetectPage
    \/ DetectAnnot
    \/ DetectNextPage
    \/ DetectReturn

DetectSpec == DetectInit /\ [][DetectNext]_vars

(***************************************************************************)
(* One call of object_to_text                                              *)
(***************************************************************************)
\* length of the longest byte sequence given to object_to_text
MaxText == 3

\* the bytes of the sequences: a letter, two whitespace characters, the NUL
\* and a byte that is not UTF-8
TextBytes == {"a", " ", "LF", "NUL", "xFF"}
RECURSIVE TextsUpTo(_)
TextsUpTo(n) ==
    IF n = 0 THEN {<<>>}
    ELSE TextsUpTo(n - 1) \cup {Append(t, c) : t \in {u \in TextsUpTo(n - 1) : Len(u) = n - 1},
                                               c \in TextBytes}

TextInit ==
    \E o \in {Name(t) : t \in TextsUpTo(MaxText)} \cup {String(t) : t \in TextsUpTo(MaxText)}
             \cup {Null, Reference(1), Array(<<String(<<"a">>)>>)} :
        /\ text_obj = o
        /\ text_out = NoText
        /\ pc = "text"
        /\ pdf_data = "pdf"
        /\ trailer_root = Absent
        /\ doc = <<>>
        /\ field_values = EmptyMap
        /\ calls = 1
        /\ call = 1
        /\ stack = <<>>
        /\ field_ids = <<>>
        /\ seen = {}
        /\ descriptors = <<>>
        /\ idx = 1
        /\ updated_fields = 0
        /\ err = NoError
        /\ first_output = <<>>
        /\ pages = <<>>
        /\ page_number = 1
        /\ annot_index = 0
        /\ blocks = <<>>

ToText ==
    /\ pc = "text"
    /\ text_out' = object_to_text(text_obj)
    /\ pc' = "text_done"
    /\ UNCHANGED <<text_obj, pdf_data, doc, err>>
    /\ UNCHANGED fill_vars
    /\ UNCHANGED detect_vars

TextNext == ToText

TextSpec == TextInit /\ [][TextNext]_vars

(***************************************************************************)
(* Properties                                                              *)
(***************************************************************************)
\* the ids of a sequence of references
RefIds(items) == {items[k].id : k \in {j \in 1..Len(items) : items[j].tag = "Reference"}}

\* the widget kids of f, when f is a button field with two or more kids that
\* are all widgets without a T of their own and with f as Parent
RadioKids(d, f) ==
    IF /\ IsDict(d, f)
       /\ d[f].FT = Name(Btn)
       /\ d[f].Kids.tag = "Array"
       /\ Len(d[f].Kids.items) >= 2
       /\ \A k \in 1..Len(d[f].Kids.items) :
             /\ d[f].Kids.items[k].tag = "Reference"
             /\ is_widget_object(d, d[f].Kids.items[k].id)
             /\ d[d[f].Kids.items[k].id].T = Absent
             /\ d[d[f].Kids.items[k].id].Parent = Reference(f)
       /\ Cardinality(RefIds(d[f].Kids.items)) >= 2
    THEN RefIds(d[f].Kids.items)
    ELSE {}

\* C1: after a successful fill, a button field with two or more widget kids
\* (no T of their own, Parent the field) whose name the map gives a value
\* equal, ASCII case-insensitively, to the on-state of exactly one of the
\* widgets has that widget's AS equal to its on-state, the AS of every other
\* widget of the field equal to "Off", and V equal to that on-state.
C1_RadioSelection ==
    (pc = "done" /\ call = 1) =>
        \A f \in DOMAIN doc : \A w \in RadioKids(doc, f) :
            LET name == field_full_name(doc, f, 0)
                on == widget_on_state(doc, w)
                matches(x) == /\ widget_on_state(doc, x).some
                              /\ eq_ignore_ascii_case(field_values[name.v],
                                                      widget_on_state(doc, x).v)
            IN (/\ f \in {field_ids[k] : k \in 1..Len(field_ids)}
                /\ name.some
                /\ name.v \in DOMAIN field_values
                /\ matches(w)
                /\ \A x \in RadioKids(doc, f) \ {w} : ~matches(x))
               => /\ doc[w].AS = Name(on.v)
                  /\ \A x \in RadioKids(doc, f) \ {w} : doc[x].AS = Name(Off)
                  /\ doc[f].V = Name(on.v)

\* the Parent chain of id has more than MaxDepth levels above id
ChainExceedsDepth(d, id) ==
    LET chain == VisitedFields(d, <<id>>, 0)
    IN Len(chain) = MaxDepth + 1 /\ field_parent_id(d, chain[Len(chain)]).some

\* C2: the full name computed at depth 0 for a field whose Parent chain is
\* longer than 48 levels (a long chain or a Parent cycle, with or without T
\* entries on the chain) is absent.
C2_DepthCap ==
    \A i \in 1..Len(descriptors) :
        ChainExceedsDepth(doc, descriptors[i].id) => descriptors[i].full_name = NoText

\* the words the applicator reads as a checked and as an unchecked button
CheckedWords ==
    {<<"t","r","u","e">>, <<"y","e","s">>, <<"o","n">>, <<"1">>,
     <<"c","h","e","c","k","e","d">>, <<"x">>}
UncheckedWords ==
    {<<>>, <<"f","a","l","s","e">>, <<"n","o">>, <<"o","f","f">>, <<"0">>,
     <<"u","n","c","h","e","c","k","e","d">>}

\* the application loop is about to apply a value to a button descriptor
ButtonTurn ==
    /\ pc = "apply"
    /\ idx <= Len(descriptors)
    /\ field_input_value(descriptors[idx], field_values).some
    /\ descriptors[idx].field_type = SomeText(Btn)
\* the value of that turn, and the value trimmed and lowercased
TurnValue == field_input_value(descriptors[idx], field_values).v
TurnWord == to_ascii_lowercase(trim(TurnValue))
\* the value matches no on-state of the widgets of the descriptor
NoStateMatches ==
    \A k \in 1..Len(descriptors[idx].widget_ids) :
        LET on == widget_on_state(doc, descriptors[idx].widget_ids[k])
        IN on.some => ~eq_ignore_ascii_case(on.v, TurnWord)

RadioMismatchTurn ==
    /\ ButtonTurn
    /\ Len(descriptors[idx].widget_ids) > 1
    /\ TurnWord \notin CheckedWords \cup UncheckedWords
    /\ NoStateMatches

\* C3: applying to a button descriptor with more than one widget a value that,
\* trimmed and lowercased, is neither truthy nor falsey and matches no widget's
\* on-state fails with BW_FILL_BUTTON_VALUE_INVALID, with the full name of the
\* descriptor (its partial name when the full name is absent) as context, and
\* writes nothing to the document.
C3_RadioMismatch ==
    [][RadioMismatchTurn =>
         /\ pc' = "failed"
         /\ err'.code = "BW_FILL_BUTTON_VALUE_INVALID"
         /\ err'.context = IF descriptors[idx].full_name.some
                           THEN descriptors[idx].full_name
                           ELSE descriptors[idx].partial_name
         /\ doc' = doc]_vars

C3_Witness ==
    /\ pc = "failed"
    /\ err.code = "BW_FILL_BUTTON_VALUE_INVALID"
    /\ err.context = SomeText(<<"a">>)
    /\ Len(descriptors[idx].widget_ids) > 1

\* a key of the map is the full name or the partial name of a descriptor
SomeNameMatches ==
    \E i \in 1..Len(descriptors) :
        \/ descriptors[i].full_name.some /\ descriptors[i].full_name.v \in DOMAIN field_values
        \/ descriptors[i].partial_name.some
           /\ descriptors[i].partial_name.v \in DOMAIN field_values
\* the call is over and had passed field discovery
EndedAfterDiscovery == pc \in {"done", "failed"} /\ descriptors # <<>>

\* C4: a fill that passed field discovery fails with BW_FILL_NO_MATCHING_FIELDS
\* exactly when the map is non-empty and no name of a descriptor is a key of
\* the map; with an empty map it succeeds, and no turn of the application loop
\* changes the document.
C4_NoMatchGuard ==
    /\ [](EndedAfterDiscovery =>
            /\ (pc = "failed" /\ err.code = "BW_FILL_NO_MATCHING_FIELDS")
                 <=> (DOMAIN field_values # {} /\ ~SomeNameMatches)
            /\ DOMAIN field_values = {} => pc = "done" /\ updated_fields = 0)
    /\ [][(pc = "apply" /\ DOMAIN field_values = {}) => doc' = doc]_vars

C4_Witness ==
    /\ pc = "failed"
    /\ err.code = "BW_FILL_NO_MATCHING_FIELDS"
    /\ descriptors # <<>>
    /\ DOMAIN field_values = {<<"u">>}

\* no id is twice in the sequence
NoIdTwice(ids) == \A i, j \in 1..Len(ids) : ids[i] = ids[j] => i = j

\* the number of calls of the walk an object stands for before any id is
\* looked up: one for the object, and those for the items of an array or for
\* the Kids of an inline dictionary
RECURSIVE WalkSize(_)
RECURSIVE WalkSizeOfAll(_)
WalkSize(obj) ==
    CASE obj.tag = "Array" -> 1 + WalkSizeOfAll(obj.items)
      [] obj.tag = "Dictionary" /\ KidsOfInline(obj).tag # "Absent" ->
           1 + WalkSize(KidsOfInline(obj))
      [] OTHER -> 1
WalkSizeOfAll(objs) ==
    IF objs = <<>> THEN 0 ELSE WalkSize(Head(objs)) + WalkSizeOfAll(Tail(objs))

\* the ids an object names
RECURSIVE NamedIds(_)
NamedIds(obj) ==
    CASE obj.tag = "Reference" -> {obj.id}
      [] obj.tag = "Array" -> UNION {NamedIds(obj.items[k]) : k \in 1..Len(obj.items)}
      [] obj.tag = "Dictionary" -> NamedIds(KidsOfInline(obj))
      [] OTHER -> {}
\* the ids the Fields and Kids entries of the document name: a finite set
MentionedIds(d) ==
    UNION {NamedIds(d[i].Fields) \cup NamedIds(d[i].Kids) : i \in DOMAIN d}

\* C5: the walk of collect_field_ids ends on every finite document, also when
\* the Kids of a field lead back to the field or to an ancestor, and the list
\* of ids it builds never holds an id twice.  The walk ends because every call
\* either marks as seen an id the document names that was not seen, or leaves
\* the seen ids alone and lessens the calls still to make: the pair (ids not
\* yet seen, calls still to make) falls at every call and cannot fall forever.
C5_CycleTermination ==
    /\ [](NoIdTwice(field_ids) /\ seen \subseteq MentionedIds(doc))
    /\ [][(pc = "collect" /\ stack # <<>>) =>
            \/ seen \subseteq seen' /\ seen' # seen
            \/ seen' = seen /\ WalkSizeOfAll(stack') < WalkSizeOfAll(stack)]_vars

\* the walk is over and met a field whose Kids name the field itself
C5_Witness ==
    /\ pc = "apply"
    /\ \E i \in 1..Len(field_ids) :
          /\ KidsOfRef(doc, field_ids[i]).tag = "Array"
          /\ field_ids[i] \in RefIds(KidsOfRef(doc, field_ids[i]).items)

\* C6: for a field F with parent P whose Parent chain is within the depth
\* bound, the full name of F is the full name of P, a dot and the partial name
\* of F when both exist, the full name of P when F has no partial name, and
\* the partial name of F when P has no full name; for a field without parent
\* it is its partial name, absent when there is none.  No step writes a T or
\* a Parent entry, so the names are compared on the document as a call loads
\* it.
C6_FullNameComposition ==
    \A f \in DOMAIN doc :
        (pc = "start" /\ IsDict(doc, f) /\ ~ChainExceedsDepth(doc, f)) =>
            LET own == dict_text(doc, doc[f].T)
                full == field_full_name(doc, f, 0)
            IN IF doc[f].Parent.tag = "Reference"
               THEN LET above == field_full_name(doc, doc[f].Parent.id, 0)
                    IN full = CASE above.some /\ own.some ->
                                     SomeText(above.v \o <<".">> \o own.v)
                                [] above.some /\ ~own.some -> above
                                [] OTHER -> own
               ELSE full = own

\* a descriptor whose full name is the dotted name of its parent and itself
C6_Witness ==
    /\ pc = "apply"
    /\ \E i \in 1..Len(descriptors) :
          /\ descriptors[i].partial_name.some
          /\ doc[descriptors[i].id].Parent.tag = "Reference"
          /\ field_full_name(doc, doc[descriptors[i].id].Parent.id, 0).some
          /\ descriptors[i].full_name =
               SomeText(field_full_name(doc, doc[descriptors[i].id].Parent.id, 0).v
                        \o <<".">> \o descriptors[i].partial_name.v)

\* the FT entry of the dictionary id as a non-empty name, with the entry
\* followed when it is a reference
FTName(d, id) ==
    LET entry == IF d[id].FT.tag = "Reference" /\ d[id].FT.id \in DOMAIN d
                      /\ ~d[d[id].FT.id].dict
                 THEN d[d[id].FT.id].val ELSE d[id].FT
    IN IF entry.tag = "Name" /\ trim(from_utf8_lossy(entry.b)) # <<>>
       THEN SomeText(trim(from_utf8_lossy(entry.b))) ELSE NoText

\* the FT name of the nearest field that has one, on the chain of the fields
\* from id up to MaxDepth levels above it
NearestFT(d, id) ==
    LET chain == VisitedFields(d, <<id>>, 0)
        with == {k \in 1..Len(chain) : IsDict(d, chain[k]) /\ FTName(d, chain[k]).some}
    IN IF with = {} THEN NoText
       ELSE FTName(d, chain[CHOOSE k \in with : \A j \in with : k <= j])

\* C7: the field type of a descriptor is the FT name of the nearest field of
\* its Parent chain, the field itself first, that has a non-empty FT name,
\* within 48 levels; a value applied to a descriptor without type is applied
\* as to a "Tx" field: V and DV become the String of the value.  The types
\* are compared when the descriptors have just been built.
C7_FieldTypeInheritance ==
    /\ []((pc = "apply" /\ idx = 1) =>
            \A i \in 1..Len(descriptors) :
                descriptors[i].field_type = NearestFT(doc, descriptors[i].id))
    /\ [][(/\ pc = "apply"
           /\ idx <= Len(descriptors)
           /\ field_input_value(descriptors[idx], field_values).some
           /\ ~descriptors[idx].field_type.some
           /\ IsDict(doc, descriptors[idx].id))
          => /\ pc' = "apply"
             /\ doc'[descriptors[idx].id].V = String(TurnValue)
             /\ doc'[descriptors[idx].id].DV = String(TurnValue)]_vars

\* a descriptor without FT of its own whose type comes from a field above it,
\* and a value applied to a descriptor without type
C7_Witness ==
    /\ pc = "apply"
    /\ \E i \in 1..Len(descriptors) :
          /\ doc[descriptors[i].id].FT = Absent
          /\ descriptors[i].field_type = SomeText(Btn)
    /\ \E i \in 1..Len(descriptors) :
          /\ ~descriptors[i].field_type.some
          /\ doc[descriptors[i].id].V = String(<<"o","n">>)

\* C8: applying to a button field a value that trims and lowercases to one
\* of "", "false", "no", "off", "0", "unchecked" sets the AS of every widget of
\* the descriptor to "Off" and the V of the field to the Name "Off", whatever
\* the number of widgets.
C8_FalseyUnchecked ==
    [][(ButtonTurn /\ TurnWord \in UncheckedWords) =>
         /\ pc' = "apply"
         /\ \A k \in 1..Len(descriptors[idx].widget_ids) :
               doc'[descriptors[idx].widget_ids[k]].AS = Name(Off)
         /\ doc'[descriptors[idx].id].V = Name(Off)]_vars

\* a falsey value went to a descriptor with two widgets, one of them the
\* widget that starts selected
C8_Witness ==
    /\ pc = "apply"
    /\ call = 1
    /\ idx = 2
    /\ Len(descriptors[1].widget_ids) = 2
    /\ widget_on_state(doc, descriptors[1].widget_ids[2]) = SomeText(<<"B">>)
    /\ field_input_value(descriptors[1], field_values) = SomeText(<<"0">>)
    /\ doc[descriptors[1].id].V = Name(Off)
    /\ \A k \in 1..2 : doc[descriptors[1].widget_ids[k]].AS = Name(Off)

\* C9: applying to a button field with one widget a value that trims and
\* lowercases to one of "true", "yes", "on", "1", "checked", "x" sets the V of
\* the field to the on-state of the widget, to "Yes" when it has none, and the
\* AS of the widget to the same value.
C9_TruthyChecked ==
    [][(ButtonTurn /\ Len(descriptors[idx].widget_ids) = 1 /\ TurnWord \in CheckedWords) =>
         LET w == descriptors[idx].widget_ids[1]
             keys == IF doc[w].N.tag = "Dictionary" THEN doc[w].N.items ELSE <<>>
             on == {k \in 1..Len(keys) : keys[k] # <<"O","f","f">>}
             state == IF on = {} THEN <<"Y","e","s">>
                      ELSE keys[CHOOSE k \in on : \A j \in on : k <= j]
         IN /\ pc' = "apply"
            /\ doc'[descriptors[idx].id].V = Name(state)
            /\ doc'[w].AS = Name(state)]_vars

\* a truthy value went to a field whose one widget is a kid with on-state "A"
C9_Witness ==
    /\ pc = "apply"
    /\ idx = 2
    /\ descriptors[1].widget_ids = <<2>>
    /\ field_input_value(descriptors[1], field_values) = SomeText(<<"X">>)
    /\ doc[1].V = Name(<<"A">>)
    /\ doc[2].AS = Name(<<"A">>)

\* the V, DV and AS entries of the two tables are the same
SameValues(d1, d2) ==
    /\ DOMAIN d1 = DOMAIN d2
    /\ \A i \in DOMAIN d1 : d1[i].V = d2[i].V /\ d1[i].DV = d2[i].DV /\ d1[i].AS = d2[i].AS

\* C10: when a fill succeeds, the fill of its output with the same map
\* succeeds too, and the V and DV of every field and the AS of every widget
\* are in the second output what they are in the first.
C10_Idempotence ==
    call = 2 => /\ pc # "failed"
                /\ pc = "done" => SameValues(doc, first_output)

\* the second fill is over, and both wrote a text and checked a button
C10_Witness ==
    /\ call = 2
    /\ pc = "done"
    /\ updated_fields > 1
    /\ \E i \in DOMAIN doc : doc[i].V = String(<<"H","i">>)
    /\ \E i \in DOMAIN doc : doc[i].AS = Name(<<"A">>)

\* the AcroForm entry of the catalog the trailer names
CatalogForm == doc[trailer_root.id].AcroForm

\* a call starts on a document whose catalog holds the form inline
InlineFormStart ==
    /\ pc = "start"
    /\ pdf_data = "pdf"
    /\ trailer_root.tag = "Reference"
    /\ IsDict(doc, trailer_root.id)
    /\ CatalogForm.tag = "Dictionary"

\* C11: in the document of every successful fill, with an empty map too, the
\* AcroForm entry of the catalog is a reference to a dictionary whose
\* NeedAppearances is true; a form that was an inline dictionary is moved
\* into a new object that holds the entries it had, and nothing else of the
\* document changes in the move.
C11_AppearanceFlag ==
    /\ [](pc = "done" =>
            /\ CatalogForm.tag = "Reference"
            /\ IsDict(doc, CatalogForm.id)
            /\ doc[CatalogForm.id].NeedAppearances = Boolean(TRUE))
    /\ [][(InlineFormStart /\ pc' = "collect") =>
            /\ Len(doc') = Len(doc) + 1
            /\ doc'[trailer_root.id] =
                 [doc[trailer_root.id] EXCEPT !.AcroForm = Reference(Len(doc) + 1)]
            /\ \A i \in DOMAIN doc : i # trailer_root.id => doc'[i] = doc[i]
            /\ doc'[Len(doc) + 1].dict
            /\ \A k \in 1..Len(CatalogForm.items) :
                  doc'[Len(doc) + 1][CatalogForm.items[k].k] = CatalogForm.items[k].v
            /\ \A key \in {"T", "Parent", "Kids", "FT", "Subtype", "N", "AS", "V", "DV",
                           "AcroForm", "Fields"} \ {CatalogForm.items[k].k :
                                                      k \in 1..Len(CatalogForm.items)} :
                  doc'[Len(doc) + 1][key] = Absent]_vars

\* a first fill with an empty map ended well on a form that was inline
C11_Witness ==
    /\ pc = "done"
    /\ call = 1
    /\ DOMAIN field_values = {}
    /\ CatalogForm = Reference(Len(doc))
    /\ doc[Len(doc)].Fields.tag = "Array"
    /\ doc[Len(doc)].NeedAppearances = Boolean(TRUE)

\* the annotation the inner loop of the detector is at
AnnotTurn ==
    /\ pc = "annots"
    /\ annot_index < Len(PageAnnots(doc, pages[page_number]).items)
AnnotItem == PageAnnots(doc, pages[page_number]).items[annot_index + 1]
\* the entries of the dictionary the annotation is, reference followed
AnnotDict == EntriesOf(doc, resolve_object(doc, AnnotItem))
\* the annotation is a Widget dictionary whose Rect is an array of four numbers
WidgetWithRect ==
    /\ resolve_object(doc, AnnotItem).tag = "Dictionary"
    /\ AnnotDict.Subtype = Name(<<"W","i","d","g","e","t">>)
    /\ AnnotDict.Rect.tag = "Array"
    /\ Len(AnnotDict.Rect.items) = 4
    /\ \A k \in 1..4 : AnnotDict.Rect.items[k].tag \in {"Integer", "Real"}
\* the T text of the dictionary the Parent entry of the annotation resolves to
ParentText ==
    IF resolve_object(doc, AnnotDict.Parent).tag = "Dictionary"
    THEN dict_text(doc, EntriesOf(doc, resolve_object(doc, AnnotDict.Parent)).T)
    ELSE NoText

\* C12: every Widget annotation with a valid Rect gives one Block, whose label
\* is the T text of the widget when present, else the T text of its resolved
\* Parent dictionary when present, else "field_p_i" with p the page number and
\* i the 1-based position of the annotation in Annots, skipped annotations
\* counted; any other annotation gives no Block.
C12_LabelPrecedence ==
    [][AnnotTurn =>
         IF WidgetWithRect
         THEN /\ Len(blocks') = Len(blocks) + 1
              /\ SubSeq(blocks', 1, Len(blocks)) = blocks
              /\ blocks'[Len(blocks')].label =
                   IF dict_text(doc, AnnotDict.T).some THEN dict_text(doc, AnnotDict.T).v
                   ELSE IF ParentText.some THEN ParentText.v
                   ELSE <<"f","i","e","l","d","_", ToString(page_number), "_",
                          ToString(annot_index + 1)>>
         ELSE blocks' = blocks]_vars

\* a run that labelled one widget by its T, one by position after a skipped
\* annotation, and one by the T of its parent
C12_Witness ==
    /\ pc = "detected"
    /\ Len(blocks) = 3
    /\ blocks[1].label = <<"a">>
    /\ blocks[2].label = <<"f","i","e","l","d","_","1","_","3">>
    /\ blocks[3].label = <<"P">>

\* the application loop is about to apply a value to a descriptor whose type
\* is "Tx" or "Ch", or absent and so taken as "Tx"
TextTurn ==
    /\ pc = "apply"
    /\ idx <= Len(descriptors)
    /\ field_input_value(descriptors[idx], field_values).some
    /\ \/ ~descriptors[idx].field_type.some
       \/ descriptors[idx].field_type.v \in {<<"T","x">>, <<"C","h">>}
    /\ IsDict(doc, descriptors[idx].id)

\* C13: applying a value to a descriptor whose effective type is "Tx" or "Ch"
\* sets V and DV of the field dictionary to the String of exactly the value
\* given, and changes nothing else: no AS, no other entry, no other object.
C13_TextFill ==
    [][TextTurn =>
         /\ pc' = "apply"
         /\ doc' = [doc EXCEPT ![descriptors[idx].id].V = String(TurnValue),
                               ![descriptors[idx].id].DV = String(TurnValue)]]_vars

\* a field without type got a value that starts with a blank, as it is
C13_Witness ==
    /\ pc = "apply"
    /\ \E i \in 1..Len(descriptors) :
          /\ ~descriptors[i].field_type.some
          /\ doc[descriptors[i].id].V = String(<<" ","w">>)
          /\ doc[descriptors[i].id].DV = String(<<" ","w">>)
          /\ doc[descriptors[i].id].AS = Absent

\* the application loop is about to apply a value to a descriptor whose type
\* is none of "Tx", "Ch" and "Btn"
UnsupportedTurn ==
    /\ pc = "apply"
    /\ idx <= Len(descriptors)
    /\ field_input_value(descriptors[idx], field_values).some
    /\ descriptors[idx].field_type.some
    /\ descriptors[idx].field_type.v \notin {<<"T","x">>, <<"C","h">>, <<"B","t","n">>}

\* C14: when the first application that fails is that of a descriptor the map
\* matches whose type is outside "Tx", "Ch", "Btn", the fill ends with
\* BW_FILL_UNSUPPORTED_FIELD_TYPE, which names the type, whatever was updated
\* before; a failed call takes no further step, so it writes no output and
\* reports no other error.
C14_UnsupportedFailFast ==
    /\ [][UnsupportedTurn =>
            /\ pc' = "failed"
            /\ err'.code = "BW_FILL_UNSUPPORTED_FIELD_TYPE"
            /\ err'.arg = descriptors[idx].field_type.v
            /\ updated_fields' = updated_fields]_vars
    /\ [][pc # "failed"]_vars
    /\ [](err.code = "BW_FILL_UNSUPPORTED_FIELD_TYPE" => pc = "failed")

\* the fill failed on a "Sig" field after it had updated another field
C14_Witness ==
    /\ pc = "failed"
    /\ err.code = "BW_FILL_UNSUPPORTED_FIELD_TYPE"
    /\ err.arg = <<"S","i","g">>
    /\ updated_fields > 0
    /\ \E i \in DOMAIN doc : doc[i].V = String(<<"o","n">>)

\* the text without its NUL characters
RECURSIVE WithoutNul(_)
WithoutNul(t) ==
    IF t = <<>> THEN <<>>
    ELSE (IF Head(t) = "NUL" THEN <<>> ELSE <<Head(t)>>) \o WithoutNul(Tail(t))

\* C15: the text object_to_text returns for a Name or a String has no NUL
\* character, embedded ones included, and neither starts nor ends with
\* whitespace; it is absent when nothing but NULs and whitespace was there.
C15_TextCanonical ==
    (pc = "text_done" /\ text_obj.tag \in {"Name", "String"}) =>
        /\ text_out.some =>
             /\ \A k \in 1..Len(text_out.v) : text_out.v[k] # "NUL"
             /\ text_out.v # <<>>
             /\ text_out.v[1] \notin {" ", "TAB", "LF"}
             /\ text_out.v[Len(text_out.v)] \notin {" ", "TAB", "LF"}
        /\ trim(WithoutNul(from_utf8_lossy(text_obj.b))) = <<>> => ~text_out.some

\* the widget kids of f in the order of Kids, when f is a button field that is
\* no widget itself and whose Kids are two or more distinct widgets
ButtonKids(d, f) ==
    IF /\ IsDict(d, f)
       /\ d[f].FT = Name(<<"B","t","n">>)
       /\ ~is_widget_object(d, f)
       /\ d[f].Kids.tag = "Array"
       /\ Len(d[f].Kids.items) >= 2
       /\ \A k \in 1..Len(d[f].Kids.items) :
             /\ d[f].Kids.items[k].tag = "Reference"
             /\ is_widget_object(d, d[f].Kids.items[k].id)
       /\ Cardinality(RefIds(d[f].Kids.items)) = Len(d[f].Kids.items)
    THEN [k \in 1..Len(d[f].Kids.items) |-> d[f].Kids.items[k].id]
    ELSE <<>>

\* C16: after a successful fill whose map gives a truthy value to the name of
\* a button field with more than one widget kid, the first widget of the field
\* has AS equal to its on-state, "Yes" when it has none, every other widget of
\* the field has AS "Off", and the V of the field is the value of the first.
C16_TruthyMultiWidget ==
    (pc = "done" /\ call = 1) =>
        \A f \in {field_ids[k] : k \in 1..Len(field_ids)} :
            LET kids == ButtonKids(doc, f)
                name == field_full_name(doc, f, 0)
                on == widget_on_state(doc, kids[1])
                state == IF on.some THEN on.v ELSE <<"Y","e","s">>
            IN (/\ kids # <<>>
                /\ name.some
                /\ name.v \in DOMAIN field_values
                /\ to_ascii_lowercase(trim(field_values[name.v])) \in CheckedWords)
               => /\ doc[kids[1]].AS = Name(state)
                  /\ \A k \in 2..Len(kids) : doc[kids[k]].AS = Name(<<"O","f","f">>)
                  /\ doc[f].V = Name(state)

\* C17: one successful application of a value, whatever it is, to a button
\* descriptor with more than one widget leaves at most one widget of the
\* descriptor with an AS other than "Off"; when there is one, the V of the
\* field is the AS of that widget, and otherwise the V is "Off".
C17_SingleApplicationExclusive ==
    [][(ButtonTurn /\ Len(descriptors[idx].widget_ids) > 1 /\ pc' = "apply"
          /\ idx' = idx + 1) =>
         LET ids == descriptors[idx].widget_ids
             set == {k \in 1..Len(ids) : doc'[ids[k]].AS # Name(<<"O","f","f">>)}
         IN /\ Cardinality(set) <= 1
            /\ \A k \in set : doc'[descriptors[idx].id].V = doc'[ids[k]].AS
            /\ set = {} => doc'[descriptors[idx].id].V = Name(<<"O","f","f">>)]_vars

\* a truthy value went to a field with two widget kids, the second of which had
\* been selected: the first is now the only one with an AS other than "Off"
C17_Witness ==
    /\ pc = "apply"
    /\ idx = 2
    /\ call = 1
    /\ descriptors[1].widget_ids = <<2, 3>>
    /\ widget_on_state(doc, 3) = SomeText(<<"B">>)
    /\ field_input_value(descriptors[1], field_values) = SomeText(<<"t","r","u","e">>)
    /\ doc[2].AS = Name(<<"A">>)
    /\ doc[3].AS = Name(<<"O","f","f">>)
    /\ doc[1].V = Name(<<"A">>)

=============================================================================
